---- MODULE Spec2Model ----
(***************************************************************************)
(* Model of the subscription tooling of montana-bot:                       *)
(*   - scripts/reimport_with_cancellations.py: first pass (extraction of   *)
(*     raw events from the chat export), second pass (per-user replay      *)
(*     that attaches an amount to every cancellation and inserts rows);    *)
(*   - analyze_subscriptions.py: message loop, per-amount report and       *)
(*     overall report.                                                     *)
(* Text is modelled as sequences of tokens: a bold span is a sequence of   *)
(* characters ("EUR" stands for the euro sign), a message text is a        *)
(* sequence of runs of words (transliterated).  Amounts are in cents.      *)
(* Dates are integers ordered like the export's ISO date strings.          *)
(***************************************************************************)
EXTENDS Integers, Sequences, FiniteSets, TLC

VARIABLES
    pc,                       \* position of reimport main(): "first", "second", "done" ("idle": not run)
    i,                        \* number of messages the first pass has read
    user_subscriptions,       \* ordered dict: sequence of [user_id, events]
    u,                        \* second pass: index of the current user (0 = none yet)
    e,                        \* second pass: index of the next event of that user
    active_amounts,           \* ordered dict: sequence of [amount, date]
    inserted,                 \* rows INSERTed into subscription_events, in order
    imported,
    cancellations_matched,
    cancellations_unmatched,
    a_pc,                     \* position of analyze_subscriptions(): "loop", "tiers", "done" ("idle": not run)
    a_i,                      \* number of messages the analyzer has read
    seen,                     \* history: the [user_id, amount, event_type] of the events read
    user_data,                \* ordered dict: sequence of [user_id, tiers, cancelled]
    counts,                   \* [subscriptions, renewals, cancellations] counters
    t,                        \* index of the next amount of `amounts` to report
    report,                   \* per-amount report rows, in order
    totals,                   \* [users, cancelled, renewals]: total_*_all accumulators
    overall,                  \* overall report: no row, or one
    s_in,                     \* statistics check: the drawn input, no row or one
    s_out,                    \* statistics check: the computed rows
    m_in,                     \* extraction check: the drawn message, no row or one
    m_out                     \* extraction check: what each script draws from it

vars == <<pc, i, user_subscriptions, u, e, active_amounts, inserted, imported,
          cancellations_matched, cancellations_unmatched,
          a_pc, a_i, seen, user_data, counts, t, report, totals, overall, s_in, s_out,
          m_in, m_out>>

reimport_vars == <<pc, i, user_subscriptions, u, e, active_amounts, inserted, imported,
                   cancellations_matched, cancellations_unmatched>>

analyze_vars == <<a_pc, a_i, seen, user_data, counts, t, report, totals, overall>>

stats_vars == <<s_in, s_out>>

extract_vars == <<m_in, m_out>>

\* Absent values, one per type: None as an amount, a date, a numeric id, a user id.
NoAmount == -1

ValueError == -2

NoDate == 0

NoId == 0

NoUser == <<"None">>

\* ------------------------------------------------------------------ bounds

MaxMsgs == 3

MaxSubs == 5

MaxRenewals == 3

MaxDate == 2

Dates == 1..MaxDate

\* ------------------------------------------------------------------ inputs

Digits == {"0", "1", "2", "3", "4", "5", "6", "7", "8", "9"}

DigitVal(c) ==
    CASE c = "0" -> 0 [] c = "1" -> 1 [] c = "2" -> 2 [] c = "3" -> 3 [] c = "4" -> 4
      [] c = "5" -> 5 [] c = "6" -> 6 [] c = "7" -> 7 [] c = "8" -> 8 [] c = "9" -> 9

\* Texts of bold spans: 5 euros (a known amount), 7,50 euros (not one),
\* zero, not a number, and a number without the euro sign.
BoldTexts ==
    { <<"EUR", "5">>, <<"EUR", "7", ",", "5", "0">>,
      <<"EUR", "0">>, <<"EUR", "a", "b", "c">>, <<"5">> }

Bold(txt) == [type |-> "bold", text |-> txt, user_id |-> NoId]

Mention(txt) == [type |-> "mention", text |-> txt, user_id |-> NoId]

MentionName(id) == [type |-> "mention_name", text |-> <<>>, user_id |-> id]

\* Identity annotations of a message: none, a mention (with the surrounding
\* blanks the export may keep), a resolved identity, a resolved identity
\* without an id.
IdentityEntities ==
    { <<>>, <<Mention(<<" ", "@alice">>)>>, <<MentionName(42)>>,
      <<MentionName(NoId), Mention(<<"@alice">>)>> }

BoldEntities ==
    {<<>>} \cup { <<Bold(b)>> : b \in BoldTexts }
           \cup { <<Bold(<<"EUR", "a", "b", "c">>), Bold(<<"EUR", "5">>)>> }

\* Message texts: a plain string is one run; a list of runs is concatenated.
Texts ==
    { << <<"oformil", "podpisku">> >>,
      << <<"prodlil", "podpisku">> >>,
      << <<"otmenil", "podpisku">> >>,
      << <<"otmenil">> >>,
      << <<"oformil">>, <<"podpisku">> >>,
      << <<"privet">> >> }

MessagesWith(bolds) ==
    { [text |-> tx, text_entities |-> id \o b, date |-> d] :
        tx \in Texts, id \in IdentityEntities, b \in bolds,
        d \in Dates \cup {NoDate} }

\* The messages the export of the reimport runs may hold.
Messages == MessagesWith(BoldEntities)

\* ------------------------------------------------------------------ helpers

RECURSIVE Flatten(_)
Flatten(runs) ==
    IF runs = <<>> THEN <<>> ELSE Head(runs) \o Flatten(Tail(runs))

\* text of a message as one string
extract_text(message) == Flatten(message.text)

\* Python's `phrase in text` on word sequences
Contains(text, phrase) ==
    \E k \in 0..(Len(text) - Len(phrase)) :
        \A j \in 1..Len(phrase) : text[k + j] = phrase[j]

RECURSIVE StripLeft(_)
StripLeft(s) ==
    IF s # <<>> /\ Head(s) = " " THEN StripLeft(Tail(s)) ELSE s

RECURSIVE StripRight(_)
StripRight(s) ==
    IF s # <<>> /\ s[Len(s)] = " " THEN StripRight(SubSeq(s, 1, Len(s) - 1)) ELSE s

\* str.strip()
Strip(s) == StripRight(StripLeft(s))

RECURSIVE extract_user_id_from(_)
extract_user_id_from(entities) ==
    IF entities = <<>> THEN NoUser
    ELSE LET entity == Head(entities) IN
         IF entity.type = "mention" THEN Strip(entity.text)
         ELSE IF entity.type = "mention_name" /\ entity.user_id # NoId
              THEN <<"user_", entity.user_id>>
              ELSE extract_user_id_from(Tail(entities))

extract_user_id(message) == extract_user_id_from(message.text_entities)

\* `not user_id`: None and the empty string are falsy
NotUser(user_id) == user_id = NoUser \/ user_id = <<>>

\* `amount is None` in place of `not amount`
NotAmountNoneOnly(amount) == amount = NoAmount

\* `not amount`: None and 0.0 are falsy
NotAmount(amount) == amount = NoAmount \/ amount = 0

\* str.replace(old, new) for one-character old
Replace(s, old, new) ==
    LET R[k \in 0..Len(s)] ==
            IF k = 0 THEN <<>>
            ELSE R[k - 1] \o (IF s[k] = old THEN new ELSE <<s[k]>>)
    IN R[Len(s)]

\* float(s) of a string of digits with at most one point and at most two
\* fractional digits, in cents; ValueError for anything else the inputs hold.
float(s) ==
    LET points == { k \in 1..Len(s) : s[k] = "." }
        p      == IF points = {} THEN Len(s) + 1 ELSE CHOOSE k \in points : TRUE
        digs   == { k \in 1..Len(s) : s[k] \in Digits }
        Whole[k \in 0..Len(s)] ==
            IF k = 0 THEN 0
            ELSE IF k < p THEN Whole[k - 1] * 10 + DigitVal(s[k]) ELSE Whole[k - 1]
        frac   == SubSeq(s, p + 1, Len(s))
        cents  == IF Len(frac) = 0 THEN 0
                  ELSE IF Len(frac) = 1 THEN DigitVal(frac[1]) * 10
                  ELSE DigitVal(frac[1]) * 10 + DigitVal(frac[2])
    IN IF Cardinality(points) > 1 \/ digs = {}
          \/ \E k \in 1..Len(s) : s[k] \notin Digits \cup {"."}
       THEN ValueError
       ELSE Whole[Len(s)] * 100 + cents

\* the first bold span with the euro sign decides: `return None` on ValueError
RECURSIVE extract_amount_first_span(_)
extract_amount_first_span(entities) ==
    IF entities = <<>> THEN NoAmount
    ELSE LET entity == Head(entities)
             text   == entity.text
             parsed == float(Replace(Replace(text, "EUR", <<>>), ",", <<".">>))
         IN IF entity.type = "bold" /\ text # <<>> /\ Head(text) = "EUR"
            THEN IF parsed # ValueError THEN parsed ELSE NoAmount
            ELSE extract_amount_first_span(Tail(entities))

RECURSIVE extract_amount_from(_)
extract_amount_from(entities) ==
    IF entities = <<>> THEN NoAmount
    ELSE LET entity == Head(entities)
             text   == entity.text
             parsed == float(Replace(Replace(text, "EUR", <<>>), ",", <<".">>))
         IN IF entity.type = "bold" /\ text # <<>> /\ Head(text) = "EUR"
               /\ parsed # ValueError
            THEN parsed
            ELSE extract_amount_from(Tail(entities))

extract_amount(message) == extract_amount_from(message.text_entities)

\* the amounts analyze_subscriptions reports on, in cents
amounts == <<100, 300, 500, 900>>

CREATED == "subscription.created"

RENEWED == "subscription.renewed"

CANCELLED == "subscription.cancelled"

\* a message that appends nothing
NoEvent == [user_id |-> NoUser, date |-> NoDate, amount |-> NoAmount,
            event_type |-> "skipped"]

\* `if ... and amount:` in place of the nested `if amount:`: a message whose
\* amount is missing is tested against the next phrase
RawEventFallsThrough(message) ==
    LET text    == extract_text(message)
        user_id == extract_user_id(message)
        amount  == extract_amount(message)
    IN IF NotUser(user_id) \/ message.date = NoDate THEN NoEvent
       ELSE IF Contains(text, <<"oformil", "podpisku">>) /\ ~NotAmount(amount)
            THEN [user_id |-> user_id, date |-> message.date,
                  amount |-> amount, event_type |-> CREATED]
       ELSE IF Contains(text, <<"prodlil", "podpisku">>) /\ ~NotAmount(amount)
            THEN [user_id |-> user_id, date |-> message.date,
                  amount |-> amount, event_type |-> RENEWED]
       ELSE IF Contains(text, <<"otmenil">>) /\ Contains(text, <<"podpisku">>)
            THEN [user_id |-> user_id, date |-> message.date,
                  amount |-> NoAmount, event_type |-> CANCELLED]
       ELSE NoEvent

\* The raw event the first pass appends for a message, or NoEvent when the
\* message is skipped.
RawEvent(message) ==
    LET text    == extract_text(message)
        user_id == extract_user_id(message)
        amount  == extract_amount(message)
    IN IF NotUser(user_id) \/ message.date = NoDate THEN NoEvent
       ELSE IF Contains(text, <<"oformil", "podpisku">>)
            THEN IF NotAmount(amount) THEN NoEvent
                 ELSE [user_id |-> user_id, date |-> message.date,
                       amount |-> amount, event_type |-> CREATED]
       ELSE IF Contains(text, <<"prodlil", "podpisku">>)
            THEN IF NotAmount(amount) THEN NoEvent
                 ELSE [user_id |-> user_id, date |-> message.date,
                       amount |-> amount, event_type |-> RENEWED]
       ELSE IF Contains(text, <<"otmenil">>) /\ Contains(text, <<"podpisku">>)
            THEN [user_id |-> user_id, date |-> message.date,
                  amount |-> NoAmount, event_type |-> CANCELLED]
       ELSE NoEvent

\* position of a key in an ordered dict (0 when absent)
KeyIndex(dict, field, key) ==
    LET hits == { k \in 1..Len(dict) : dict[k][field] = key }
    IN IF hits = {} THEN 0 ELSE CHOOSE k \in hits : TRUE

\* user_subscriptions[user_id].append(event) on a defaultdict(list)
AppendEvent(subs, ev) ==
    LET k   == KeyIndex(subs, "user_id", ev.user_id)
        row == [date |-> ev.date, amount |-> ev.amount, event_type |-> ev.event_type]
    IN IF k = 0 THEN Append(subs, [user_id |-> ev.user_id, events |-> <<row>>])
       ELSE [subs EXCEPT ![k].events = Append(@, row)]

\* list.sort(key=date): stable, ascending
RECURSIVE InsertByDate(_, _)
InsertByDate(sorted, ev) ==
    IF sorted = <<>> THEN <<ev>>
    ELSE IF sorted[Len(sorted)].date <= ev.date THEN Append(sorted, ev)
    ELSE Append(InsertByDate(SubSeq(sorted, 1, Len(sorted) - 1), ev), sorted[Len(sorted)])

SortByDate(events) ==
    LET S[k \in 0..Len(events)] ==
            IF k = 0 THEN <<>> ELSE InsertByDate(S[k - 1], events[k])
    IN S[Len(events)]

\* a list of subscriptions in place of a dict: every Created adds an entry
SetActiveAppend(active, amount, date) ==
    Append(active, [amount |-> amount, date |-> date])

\* active_amounts[amount] = date: a present key keeps its place
SetActive(active, amount, date) ==
    LET k == KeyIndex(active, "amount", amount)
    IN IF k = 0 THEN Append(active, [amount |-> amount, date |-> date])
       ELSE [active EXCEPT ![k].date = date]

\* min in place of max: the oldest subscription
LastAmountOldest(active) ==
    LET k == CHOOSE k \in 1..Len(active) :
                 /\ \A j \in 1..Len(active) : active[j].date >= active[k].date
                 /\ \A j \in 1..(k - 1) : active[j].date > active[k].date
    IN active[k].amount

\* a scan that keeps the later of two entries of the same date: the last
\* entry, in insertion order, whose date no other entry exceeds
LastAmountLastInserted(active) ==
    LET k == CHOOSE k \in 1..Len(active) :
                 /\ \A j \in 1..Len(active) : active[j].date <= active[k].date
                 /\ \A j \in (k + 1)..Len(active) : active[j].date < active[k].date
    IN active[k].amount

\* max(active_amounts.items(), key=lambda x: x[1])[0]: the first entry, in
\* insertion order, whose date no other entry exceeds
LastAmount(active) ==
    LET k == CHOOSE k \in 1..Len(active) :
                 /\ \A j \in 1..Len(active) : active[j].date <= active[k].date
                 /\ \A j \in 1..(k - 1) : active[j].date < active[k].date
    IN active[k].amount

\* the matched subscription is left active
DelActiveKeeps(active, amount) == active

\* del active_amounts[amount]
DelActive(active, amount) ==
    SelectSeq(active, LAMBDA entry : entry.amount # amount)

Row(user_id, amount, event_type, date) ==
    [user_id |-> user_id, amount |-> amount, event_type |-> event_type,
     event_date |-> date]

\* ------------------------------------------------------------------ reimport

ReimportInit ==
    /\ pc = "first"
    /\ i = 0
    /\ user_subscriptions = <<>>
    /\ u = 0
    /\ e = 0
    /\ active_amounts = <<>>
    /\ inserted = <<>>
    /\ imported = 0
    /\ cancellations_matched = 0
    /\ cancellations_unmatched = 0

\* What the first pass can draw from one message of the export.
RawEvents == { RawEvent(message) : message \in Messages }

\* One iteration of the first pass over `messages`, for a message whose
\* raw event is ev.
FirstPass(ev) ==
    /\ pc = "first"
    /\ i < MaxMsgs
    /\ i' = i + 1
    /\ user_subscriptions' =
           IF ev = NoEvent THEN user_subscriptions
           ELSE AppendEvent(user_subscriptions, ev)
    /\ UNCHANGED <<pc, u, e, active_amounts, inserted, imported,
                   cancellations_matched, cancellations_unmatched>>
    /\ UNCHANGED <<analyze_vars, stats_vars, extract_vars>>

\* The first pass has read the whole export.
EndFirstPass ==
    /\ pc = "first"
    /\ pc' = "second"
    /\ UNCHANGED <<i, user_subscriptions, u, e, active_amounts, inserted, imported,
                   cancellations_matched, cancellations_unmatched>>
    /\ UNCHANGED <<analyze_vars, stats_vars, extract_vars>>

UserDone == IF u = 0 THEN TRUE ELSE e > Len(user_subscriptions[u].events)

\* active_amounts created once, before the loop over the users
NextUserKeepsActive ==
    /\ pc = "second"
    /\ UserDone
    /\ u < Len(user_subscriptions)
    /\ u' = u + 1
    /\ e' = 1
    /\ user_subscriptions' =
           [user_subscriptions EXCEPT ![u + 1].events = SortByDate(@)]
    /\ UNCHANGED <<pc, i, active_amounts, inserted, imported, cancellations_matched,
                   cancellations_unmatched>>
    /\ UNCHANGED <<analyze_vars, stats_vars, extract_vars>>

\* Second pass, next user: sort the user's events, start with no active amount.
NextUser ==
    /\ pc = "second"
    /\ UserDone
    /\ u < Len(user_subscriptions)
    /\ u' = u + 1
    /\ e' = 1
    /\ user_subscriptions' =
           [user_subscriptions EXCEPT ![u + 1].events = SortByDate(@)]
    /\ active_amounts' = <<>>
    /\ UNCHANGED <<pc, i, inserted, imported, cancellations_matched,
                   cancellations_unmatched>>
    /\ UNCHANGED <<analyze_vars, stats_vars, extract_vars>>

CurrentUser == user_subscriptions[u].user_id

CurrentEvent == user_subscriptions[u].events[e]

AtEvent(event_type) ==
    /\ pc = "second"
    /\ u > 0
    /\ e <= Len(user_subscriptions[u].events)
    /\ CurrentEvent.event_type = event_type

\* a Created of an amount that is already active is passed over
ProcessCreatedOnce ==
    /\ AtEvent(CREATED)
    /\ IF KeyIndex(active_amounts, "amount", CurrentEvent.amount) = 0
       THEN /\ active_amounts' =
                   SetActive(active_amounts, CurrentEvent.amount, CurrentEvent.date)
            /\ inserted' = Append(inserted,
                   Row(CurrentUser, CurrentEvent.amount, CREATED, CurrentEvent.date))
            /\ imported' = imported + 1
       ELSE UNCHANGED <<active_amounts, inserted, imported>>
    /\ e' = e + 1
    /\ UNCHANGED <<pc, i, user_subscriptions, u, cancellations_matched,
                   cancellations_unmatched>>
    /\ UNCHANGED <<analyze_vars, stats_vars, extract_vars>>

ProcessCreated ==
    /\ AtEvent(CREATED)
    /\ active_amounts' = SetActive(active_amounts, CurrentEvent.amount, CurrentEvent.date)
    /\ inserted' = Append(inserted,
           Row(CurrentUser, CurrentEvent.amount, CREATED, CurrentEvent.date))
    /\ imported' = imported + 1
    /\ e' = e + 1
    /\ UNCHANGED <<pc, i, user_subscriptions, u, cancellations_matched,
                   cancellations_unmatched>>
    /\ UNCHANGED <<analyze_vars, stats_vars, extract_vars>>

\* a renewal recorded as a subscription: it makes its amount active
ProcessRenewedOpens ==
    /\ AtEvent(RENEWED)
    /\ active_amounts' = SetActive(active_amounts, CurrentEvent.amount, CurrentEvent.date)
    /\ inserted' = Append(inserted,
           Row(CurrentUser, CurrentEvent.amount, RENEWED, CurrentEvent.date))
    /\ imported' = imported + 1
    /\ e' = e + 1
    /\ UNCHANGED <<pc, i, user_subscriptions, u, cancellations_matched,
                   cancellations_unmatched>>
    /\ UNCHANGED <<analyze_vars, stats_vars, extract_vars>>

ProcessRenewed ==
    /\ AtEvent(RENEWED)
    /\ inserted' = Append(inserted,
           Row(CurrentUser, CurrentEvent.amount, RENEWED, CurrentEvent.date))
    /\ imported' = imported + 1
    /\ e' = e + 1
    /\ UNCHANGED <<pc, i, user_subscriptions, u, active_amounts,
                   cancellations_matched, cancellations_unmatched>>
    /\ UNCHANGED <<analyze_vars, stats_vars, extract_vars>>

\* an unmatched cancellation inserted with no amount
ProcessCancelledInsertsUnmatched ==
    /\ AtEvent(CANCELLED)
    /\ IF active_amounts # <<>>
       THEN LET last_amount == LastAmount(active_amounts)
            IN /\ inserted' = Append(inserted,
                      Row(CurrentUser, last_amount, CANCELLED, CurrentEvent.date))
               /\ imported' = imported + 1
               /\ cancellations_matched' = cancellations_matched + 1
               /\ active_amounts' = DelActive(active_amounts, last_amount)
               /\ UNCHANGED cancellations_unmatched
       ELSE /\ inserted' = Append(inserted,
                   Row(CurrentUser, NoAmount, CANCELLED, CurrentEvent.date))
            /\ imported' = imported + 1
            /\ cancellations_unmatched' = cancellations_unmatched + 1
            /\ UNCHANGED <<cancellations_matched, active_amounts>>
    /\ e' = e + 1
    /\ UNCHANGED <<pc, i, user_subscriptions, u>>
    /\ UNCHANGED <<analyze_vars, stats_vars, extract_vars>>

ProcessCancelled ==
    /\ AtEvent(CANCELLED)
    /\ IF active_amounts # <<>>
       THEN LET last_amount == LastAmount(active_amounts)
            IN /\ inserted' = Append(inserted,
                      Row(CurrentUser, last_amount, CANCELLED, CurrentEvent.date))
               /\ imported' = imported + 1
               /\ cancellations_matched' = cancellations_matched + 1
               /\ active_amounts' = DelActive(active_amounts, last_amount)
               /\ UNCHANGED cancellations_unmatched
       ELSE /\ cancellations_unmatched' = cancellations_unmatched + 1
            /\ UNCHANGED <<inserted, imported, cancellations_matched, active_amounts>>
    /\ e' = e + 1
    /\ UNCHANGED <<pc, i, user_subscriptions, u>>
    /\ UNCHANGED <<analyze_vars, stats_vars, extract_vars>>

\* conn.commit() after the last user
Commit ==
    /\ pc = "second"
    /\ UserDone
    /\ u = Len(user_subscriptions)
    /\ pc' = "done"
    /\ UNCHANGED <<i, user_subscriptions, u, e, active_amounts, inserted, imported,
                   cancellations_matched, cancellations_unmatched>>
    /\ UNCHANGED <<analyze_vars, stats_vars, extract_vars>>

Next ==
    \/ \E ev \in RawEvents : FirstPass(ev)
    \/ EndFirstPass
    \/ NextUser
    \/ ProcessCreated
    \/ ProcessRenewed
    \/ ProcessCancelled
    \/ Commit

AnalyzeIdle ==
    /\ a_pc = "idle"
    /\ a_i = 0
    /\ seen = {}
    /\ user_data = <<>>
    /\ counts = [subscriptions |-> 0, renewals |-> 0, cancellations |-> 0]
    /\ t = 1
    /\ report = <<>>
    /\ totals = [users |-> {}, cancelled |-> {}, renewals |-> <<>>]
    /\ overall = <<>>

StatsIdle ==
    /\ s_in = <<>>
    /\ s_out = <<>>

ExtractIdle ==
    /\ m_in = <<>>
    /\ m_out = <<>>

Init == ReimportInit /\ AnalyzeIdle /\ StatsIdle /\ ExtractIdle

Spec == Init /\ [][Next]_vars

\* ------------------------------------------------------------------ reimport: properties

alice == <<"@alice">>

user_42 == <<"user_", 42>>

Replaying == pc = "second" /\ u > 0

\* rows inserted for a user, in order
RowsOf(user_id) == SelectSeq(inserted, LAMBDA row : row.user_id = user_id)

CountRows(user_id, event_type) ==
    Len(SelectSeq(inserted,
            LAMBDA row : row.user_id = user_id /\ row.event_type = event_type))

ActiveAmounts == { active_amounts[k].amount : k \in 1..Len(active_amounts) }

ActiveEntries == { active_amounts[k] : k \in 1..Len(active_amounts) }

LastRow == inserted[Len(inserted)]

\* C1: a cancellation processed while some amount is active is inserted with
\* an active amount whose date no other active amount exceeds, and exactly
\* that amount stops being active: all other entries stay, dates unchanged.
C1_CancelClosesMostRecent ==
    [][ (AtEvent(CANCELLED) /\ active_amounts # <<>>) =>
          /\ inserted' = Append(inserted, LastRow')
          /\ LastRow'.event_type = CANCELLED
          /\ LastRow'.user_id = CurrentUser
          /\ \E entry \in ActiveEntries :
                /\ entry.amount = LastRow'.amount
                /\ \A other \in ActiveEntries : other.date <= entry.date
                /\ active_amounts' =
                       SelectSeq(active_amounts, LAMBDA x : x # entry)
                /\ Len(active_amounts') = Len(active_amounts) - 1
      ]_vars

\* C1 witness: [Created(5)@1, Created(7,50)@2, Cancelled@2] resolved to 7,50,
\* with 5 still active since date 1.
C1_Witness ==
    /\ Replaying
    /\ inserted = << Row(alice, 500, CREATED, 1), Row(alice, 750, CREATED, 2),
                     Row(alice, 750, CANCELLED, 2) >>
    /\ active_amounts = << [amount |-> 500, date |-> 1] >>

\* C2 as claimed: a renewal of an amount that is not active makes it active
\* at the renewal's date.
C2_RenewedOpensTier ==
    [][ AtEvent(RENEWED) =>
          [amount |-> CurrentEvent.amount, date |-> CurrentEvent.date]
              \in { active_amounts'[k] : k \in 1..Len(active_amounts') }
           \/ CurrentEvent.amount \in ActiveAmounts
      ]_vars

\* C2 as amended: a renewal is inserted and leaves the active amounts as
\* they are, so a user whose events are renewals followed by a cancellation
\* ends with that cancellation unmatched and not inserted.
C2_RenewedLeavesActive ==
    /\ [][ AtEvent(RENEWED) =>
             /\ active_amounts' = active_amounts
             /\ inserted' = Append(inserted,
                    Row(CurrentUser, CurrentEvent.amount, RENEWED, CurrentEvent.date))
         ]_vars
    /\ [] ( (Replaying /\ CountRows(CurrentUser, CREATED) = 0) =>
              /\ active_amounts = <<>>
              /\ CountRows(CurrentUser, CANCELLED) = 0 )

\* C2 witness: [Renewed(5)@1, Cancelled@2] replayed: one row, one unmatched.
C2_Witness ==
    /\ pc = "done"
    /\ inserted = << Row(alice, 500, RENEWED, 1) >>
    /\ Len(user_subscriptions[1].events) = 2
    /\ user_subscriptions[1].events[2].event_type = CANCELLED
    /\ cancellations_unmatched = 1
    /\ cancellations_matched = 0

\* C3: a cancellation processed while no amount is active inserts nothing,
\* adds exactly one to the unmatched counter, leaves the active amounts
\* empty and moves on to the user's next event; a user whose only event is
\* a cancellation ends with no row and one unmatched cancellation.
C3_UnmatchedCancel ==
    /\ [][ (AtEvent(CANCELLED) /\ active_amounts = <<>>) =>
             /\ inserted' = inserted
             /\ imported' = imported
             /\ cancellations_matched' = cancellations_matched
             /\ cancellations_unmatched' = cancellations_unmatched + 1
             /\ active_amounts' = <<>>
             /\ pc' = "second" /\ u' = u /\ e' = e + 1
         ]_vars
    /\ [] ( ( /\ pc = "done"
              /\ Len(user_subscriptions) = 1
              /\ Len(user_subscriptions[1].events) = 1
              /\ user_subscriptions[1].events[1].event_type = CANCELLED ) =>
              ( inserted = <<>> /\ imported = 0 /\ cancellations_unmatched = 1 ) )

\* C3 witness: [Cancelled@1, Created(5)@2]: the cancellation was unmatched and
\* the replay went on to insert the Created.
C3_Witness ==
    /\ Replaying
    /\ cancellations_unmatched = 1
    /\ user_subscriptions[u].events[1].event_type = CANCELLED
    /\ inserted = << Row(user_42, 500, CREATED, 2) >>

\* C4: at every point of the replay, for every user, the Created rows plus
\* the Renewed rows are at least as many as the Cancelled rows.
C4_Conservation ==
    \A k \in 1..Len(user_subscriptions) :
        LET user_id == user_subscriptions[k].user_id
        IN CountRows(user_id, CREATED) + CountRows(user_id, RENEWED)
               >= CountRows(user_id, CANCELLED)

\* C4 witness: a user with as many matched cancellations as Created rows,
\* and one more cancellation after them.
C4_Witness ==
    /\ pc = "done"
    /\ CountRows(alice, CREATED) = 1
    /\ CountRows(alice, CANCELLED) = 1
    /\ cancellations_unmatched = 1

\* the Created rows of a user strictly between positions lo and hi of its rows
CreatedBetween(rows, lo, hi, amount) ==
    \E m \in (lo + 1)..(hi - 1) :
        rows[m].event_type = CREATED /\ rows[m].amount = amount

\* C5: no amount is active twice; an active amount's date is the date of the
\* user's latest Created row of that amount; and between two Cancelled rows
\* of a user with the same amount there is a Created row with that amount.
C5_OneOpenStatePerTier ==
    /\ \A j, k \in 1..Len(active_amounts) :
           active_amounts[j].amount = active_amounts[k].amount => j = k
    /\ Replaying =>
           LET rows == RowsOf(CurrentUser)
               Opens(amount) == { m \in 1..Len(rows) :
                                    /\ rows[m].event_type = CREATED
                                    /\ rows[m].amount = amount }
           IN \A entry \in ActiveEntries :
                  /\ Opens(entry.amount) # {}
                  /\ \E m \in Opens(entry.amount) :
                         /\ \A n \in Opens(entry.amount) : n <= m
                         /\ rows[m].event_date = entry.date
                         /\ \A n \in (m + 1)..Len(rows) :
                                ~ ( rows[n].event_type = CANCELLED
                                    /\ rows[n].amount = entry.amount )
    /\ \A k \in 1..Len(user_subscriptions) :
           LET rows == RowsOf(user_subscriptions[k].user_id)
           IN \A lo, hi \in 1..Len(rows) :
                  ( /\ lo < hi
                    /\ rows[lo].event_type = CANCELLED
                    /\ rows[hi].event_type = CANCELLED
                    /\ rows[lo].amount = rows[hi].amount )
                  => CreatedBetween(rows, lo, hi, rows[lo].amount)

\* C5 witness: [Created(5)@1, Created(5)@2, Cancelled@2]: the second Created
\* refreshed the date, the cancellation closed 5 and nothing is active.
C5_Witness ==
    /\ Replaying
    /\ inserted = << Row(alice, 500, CREATED, 1), Row(alice, 500, CREATED, 2),
                     Row(alice, 500, CANCELLED, 2) >>
    /\ active_amounts = <<>>

KnownTiers == { amounts[k] : k \in 1..Len(amounts) }

\* C10 as claimed: every inserted row carries an amount of the known tier set.
C10_AmountsInTierSet ==
    \A k \in 1..Len(inserted) : inserted[k].amount \in KnownTiers

\* C10 as amended: every inserted row carries a defined, non-zero amount; a
\* Created or Renewed row carries the amount of a raw event of that user,
\* kind and date, and a Cancelled row the amount of an earlier Created row
\* of the same user.
C10_AmountsDefined ==
    \A k \in 1..Len(inserted) :
        LET row == inserted[k]
        IN /\ row.amount > 0
           /\ row.event_type \in {CREATED, RENEWED} =>
                  \E j \in 1..Len(user_subscriptions) :
                      /\ user_subscriptions[j].user_id = row.user_id
                      /\ \E m \in 1..Len(user_subscriptions[j].events) :
                             user_subscriptions[j].events[m] =
                                 [date |-> row.event_date, amount |-> row.amount,
                                  event_type |-> row.event_type]
           /\ row.event_type = CANCELLED =>
                  \E j \in 1..(k - 1) :
                      /\ inserted[j].user_id = row.user_id
                      /\ inserted[j].event_type = CREATED
                      /\ inserted[j].amount = row.amount

\* C10 witness: an amount outside the known tier set was extracted, became
\* active and was inserted as Created and as Cancelled.
C10_Witness ==
    /\ pc = "done"
    /\ 750 \notin KnownTiers
    /\ inserted = << Row(user_42, 750, CREATED, 1), Row(user_42, 750, CANCELLED, 2) >>

\* ------------------------------------------------------------------ analyze_subscriptions

\* Bold spans of the analyzer's export: 5 and 9 euros (reported amounts),
\* 7,50 euros (not reported), zero, none.
AnalyzerBolds ==
    { <<>>, <<Bold(<<"EUR", "5">>)>>, <<Bold(<<"EUR", "9", ",", "0", "0">>)>>,
      <<Bold(<<"EUR", "7", ",", "5", "0">>)>>, <<Bold(<<"EUR", "0">>)>> }

\* The analyzer stores dates and never reads them: its messages all carry
\* the same date.
AnalyzerMessages ==
    { [text |-> tx, text_entities |-> id \o b, date |-> d] :
        tx \in Texts, id \in IdentityEntities \cup { <<Mention(<<"@bob">>)>> },
        b \in AnalyzerBolds, d \in {1} }

\* What one iteration of the message loop does with a message: the entry it
\* adds to user_data, or nothing.
AnalyzerEvent(message) ==
    LET text    == extract_text(message)
        user_id == extract_user_id(message)
        amount  == extract_amount(message)
    IN IF NotUser(user_id) THEN NoEvent
       ELSE IF Contains(text, <<"oformil", "podpisku">>)
            THEN IF NotAmount(amount) THEN NoEvent
                 ELSE [user_id |-> user_id, date |-> message.date,
                       amount |-> amount, event_type |-> CREATED]
       ELSE IF Contains(text, <<"prodlil", "podpisku">>)
            THEN IF NotAmount(amount) THEN NoEvent
                 ELSE [user_id |-> user_id, date |-> message.date,
                       amount |-> amount, event_type |-> RENEWED]
       ELSE IF Contains(text, <<"otmenil">>) /\ Contains(text, <<"podpisku">>)
            THEN [user_id |-> user_id, date |-> message.date,
                  amount |-> NoAmount, event_type |-> CANCELLED]
       ELSE NoEvent

AnalyzerEvents == { AnalyzerEvent(message) : message \in AnalyzerMessages }

\* user_data[user_id] on the defaultdict: an absent user is created empty
WithUser(data, user_id) ==
    IF KeyIndex(data, "user_id", user_id) # 0 THEN data
    ELSE Append(data, [user_id |-> user_id, tiers |-> <<>>, cancelled |-> <<>>])

\* user_data[user_id][amount] on the inner defaultdict
WithTier(tiers, amount) ==
    IF KeyIndex(tiers, "amount", amount) # 0 THEN tiers
    ELSE Append(tiers, [amount |-> amount, subscriptions |-> <<>>, renewals |-> <<>>])

\* user_data[user_id][amount]['subscriptions'].append(date)
AddSubscription(data, user_id, amount, date) ==
    LET d1    == WithUser(data, user_id)
        k     == KeyIndex(d1, "user_id", user_id)
        tiers == WithTier(d1[k].tiers, amount)
        j     == KeyIndex(tiers, "amount", amount)
    IN [d1 EXCEPT ![k].tiers = [tiers EXCEPT ![j].subscriptions = Append(@, date)]]

\* user_data[user_id][amount]['renewals'].append(date)
AddRenewal(data, user_id, amount, date) ==
    LET d1    == WithUser(data, user_id)
        k     == KeyIndex(d1, "user_id", user_id)
        tiers == WithTier(d1[k].tiers, amount)
        j     == KeyIndex(tiers, "amount", amount)
    IN [d1 EXCEPT ![k].tiers = [tiers EXCEPT ![j].renewals = Append(@, date)]]

\* user_data[user_id]['_cancelled'] = date
SetCancelled(data, user_id, date) ==
    LET d1 == WithUser(data, user_id)
        k  == KeyIndex(d1, "user_id", user_id)
    IN [d1 EXCEPT ![k].cancelled = <<date>>]

\* One iteration of the message loop, for a message whose event is ev.
AnalyzeMessage(ev) ==
    /\ a_pc = "loop"
    /\ a_i < MaxMsgs
    /\ a_i' = a_i + 1
    /\ seen' = IF ev = NoEvent THEN seen
               ELSE seen \cup { [user_id |-> ev.user_id, amount |-> ev.amount,
                                 event_type |-> ev.event_type] }
    /\ user_data' =
           CASE ev.event_type = CREATED ->
                    AddSubscription(user_data, ev.user_id, ev.amount, ev.date)
             [] ev.event_type = RENEWED ->
                    AddRenewal(user_data, ev.user_id, ev.amount, ev.date)
             [] ev.event_type = CANCELLED ->
                    SetCancelled(user_data, ev.user_id, ev.date)
             [] OTHER -> user_data
    /\ counts' =
           CASE ev.event_type = CREATED ->
                    [counts EXCEPT !.subscriptions = @ + 1]
             [] ev.event_type = RENEWED ->
                    [counts EXCEPT !.renewals = @ + 1]
             [] ev.event_type = CANCELLED ->
                    [counts EXCEPT !.cancellations = @ + 1]
             [] OTHER -> counts
    /\ UNCHANGED <<a_pc, t, report, totals, overall>>
    /\ UNCHANGED <<reimport_vars, stats_vars, extract_vars>>

\* The message loop has read the whole export.
EndMessages ==
    /\ a_pc = "loop"
    /\ a_pc' = "tiers"
    /\ UNCHANGED <<a_i, seen, user_data, counts, t, report, totals, overall>>
    /\ UNCHANGED <<reimport_vars, stats_vars, extract_vars>>

\* round(num / den) to the nearest integer, ties to even, as "%.2f" rounds
RoundHalfEven(num, den) ==
    LET q == num \div den
        r == num % den
    IN IF 2 * r < den THEN q
       ELSE IF 2 * r > den THEN q + 1
       ELSE IF q % 2 = 0 THEN q ELSE q + 1

\* int() in place of rounding
PctTruncated(part, total) == (part * 10000) \div total

\* (part / total) * 100 as printed with two decimals, in hundredths
Pct(part, total) == RoundHalfEven(part * 10000, total)

churn_rate(total_users, total_cancelled) ==
    IF total_users > 0 THEN Pct(total_cancelled, total_users) ELSE 0

retention_rate(total_users, total_cancelled) ==
    IF total_users > 0 THEN Pct(total_users - total_cancelled, total_users) ELSE 0

RECURSIVE Sum(_)
Sum(xs) == IF xs = <<>> THEN 0 ELSE Head(xs) + Sum(Tail(xs))

\* sum(xs) / len(xs) as printed with two decimals, in hundredths
avg_renewals(total_users, renewals) ==
    IF total_users > 0 /\ renewals # <<>>
    THEN RoundHalfEven(Sum(renewals) * 100, Len(renewals))
    ELSE 0

RECURSIVE InsertSorted(_, _)
InsertSorted(sorted, x) ==
    IF sorted = <<>> THEN <<x>>
    ELSE IF sorted[Len(sorted)] <= x THEN Append(sorted, x)
    ELSE Append(InsertSorted(SubSeq(sorted, 1, Len(sorted) - 1), x), sorted[Len(sorted)])

\* sorted(xs)
Sorted(xs) ==
    LET S[k \in 0..Len(xs)] ==
            IF k = 0 THEN <<>> ELSE InsertSorted(S[k - 1], xs[k])
    IN S[Len(xs)]

\* the lower of the two middle elements on even length
MedianLower(renewals_per_user) ==
    Sorted(renewals_per_user)[(Len(renewals_per_user) - 1) \div 2 + 1]

\* sorted(renewals_per_user)[len(renewals_per_user)//2], indices from 0
Median(renewals_per_user) ==
    Sorted(renewals_per_user)[Len(renewals_per_user) \div 2 + 1]

\* The distribution block of a report: printed only for a non-empty list.
Distribution(renewals_per_user) ==
    IF renewals_per_user = <<>> THEN <<>>
    ELSE << [ minimum |-> Sorted(renewals_per_user)[1],
              maximum |-> Sorted(renewals_per_user)[Len(renewals_per_user)],
              median  |-> Median(renewals_per_user),
              no_renewals       |-> Len(SelectSeq(renewals_per_user, LAMBDA r : r = 0)),
              one_renewal       |-> Len(SelectSeq(renewals_per_user, LAMBDA r : r = 1)),
              multiple_renewals |-> Len(SelectSeq(renewals_per_user, LAMBDA r : r > 1)) ] >>

\* The figures printed for one amount.
TierStats(total_users, total_cancelled, renewals_per_user) ==
    [ total_users     |-> total_users,
      total_cancelled |-> total_cancelled,
      active_users    |-> total_users - total_cancelled,
      churn_rate      |-> churn_rate(total_users, total_cancelled),
      retention_rate  |-> retention_rate(total_users, total_cancelled),
      avg_renewals    |-> avg_renewals(total_users, renewals_per_user),
      distribution    |-> Distribution(renewals_per_user) ]

\* The figures printed for all amounts together.
OverallStats(total_unique_users, total_unique_cancelled, total_renewals_all) ==
    [ total_users     |-> total_unique_users,
      total_cancelled |-> total_unique_cancelled,
      active_users    |-> total_unique_users - total_unique_cancelled,
      churn_rate      |-> churn_rate(total_unique_users, total_unique_cancelled),
      retention_rate  |-> retention_rate(total_unique_users, total_unique_cancelled),
      avg_renewals    |-> avg_renewals(total_unique_users, total_renewals_all) ]

\* the entry of user_data[k] for an amount, as a sequence: none or one
TierOf(entry, amount) ==
    SelectSeq(entry.tiers, LAMBDA tier : tier.amount = amount)

\* counted although the user never subscribed at the amount
CountedAny(entry, amount) == TierOf(entry, amount) # <<>>

\* `amount in amounts_data` and `user_info['subscriptions']` non-empty
Counted(entry, amount) ==
    /\ TierOf(entry, amount) # <<>>
    /\ TierOf(entry, amount)[1].subscriptions # <<>>

\* the wrong key looked up: 'cancelled' is never a key of amounts_data
HasCancelledWrongKey(entry) == FALSE

\* `'_cancelled' in amounts_data`
HasCancelled(entry) == entry.cancelled # <<>>

\* renewals_per_user: len(user_info['renewals']) of the counted users, in
\* the order of user_data
renewals_of(data, amount) ==
    LET R[k \in 0..Len(data)] ==
            IF k = 0 THEN <<>>
            ELSE IF Counted(data[k], amount)
                 THEN Append(R[k - 1], Len(TierOf(data[k], amount)[1].renewals))
                 ELSE R[k - 1]
    IN R[Len(data)]

users_with_amount(data, amount) ==
    { data[k].user_id : k \in { j \in 1..Len(data) : Counted(data[j], amount) } }

users_cancelled(data, amount) ==
    { data[k].user_id :
        k \in { j \in 1..Len(data) :
                  Counted(data[j], amount) /\ HasCancelled(data[j]) } }

\* One iteration of the loop over `amounts`.
ReportTier ==
    /\ a_pc = "tiers"
    /\ t <= Len(amounts)
    /\ LET amount    == amounts[t]
           users     == users_with_amount(user_data, amount)
           cancelled == users_cancelled(user_data, amount)
           renewals  == renewals_of(user_data, amount)
       IN /\ report' = Append(report,
                 [ amount |-> amount, users |-> users, cancelled |-> cancelled,
                   renewals_per_user |-> renewals,
                   stats |-> TierStats(Cardinality(users), Cardinality(cancelled),
                                       renewals) ])
          /\ totals' = [ users     |-> totals.users \cup users,
                         cancelled |-> totals.cancelled \cup cancelled,
                         renewals  |-> totals.renewals \o renewals ]
    /\ t' = t + 1
    /\ UNCHANGED <<a_pc, a_i, seen, user_data, counts, overall>>
    /\ UNCHANGED <<reimport_vars, stats_vars, extract_vars>>

\* The overall block, after the last amount.
ReportOverall ==
    /\ a_pc = "tiers"
    /\ t > Len(amounts)
    /\ overall' = << OverallStats(Cardinality(totals.users),
                                  Cardinality(totals.cancelled), totals.renewals) >>
    /\ a_pc' = "done"
    /\ UNCHANGED <<a_i, seen, user_data, counts, t, report, totals>>
    /\ UNCHANGED <<reimport_vars, stats_vars, extract_vars>>

ReimportIdle ==
    /\ pc = "idle"
    /\ i = 0
    /\ user_subscriptions = <<>>
    /\ u = 0
    /\ e = 0
    /\ active_amounts = <<>>
    /\ inserted = <<>>
    /\ imported = 0
    /\ cancellations_matched = 0
    /\ cancellations_unmatched = 0

AnalyzeInit ==
    /\ a_pc = "loop"
    /\ a_i = 0
    /\ seen = {}
    /\ user_data = <<>>
    /\ counts = [subscriptions |-> 0, renewals |-> 0, cancellations |-> 0]
    /\ t = 1
    /\ report = <<>>
    /\ totals = [users |-> {}, cancelled |-> {}, renewals |-> <<>>]
    /\ overall = <<>>

InitAnalyze == ReimportIdle /\ AnalyzeInit /\ StatsIdle /\ ExtractIdle

NextAnalyze ==
    \/ \E ev \in AnalyzerEvents : AnalyzeMessage(ev)
    \/ EndMessages
    \/ ReportTier
    \/ ReportOverall

SpecAnalyze == InitAnalyze /\ [][NextAnalyze]_vars

\* ------------------------------------------------------------------ statistics of one amount

\* The lists of renewal counts of up to MaxSubs counted users.
RECURSIVE RenewalLists(_)
RenewalLists(n) ==
    IF n = 0 THEN { <<>> }
    ELSE LET shorter == RenewalLists(n - 1)
         IN shorter \cup { Append(xs, r) :
                             xs \in { ys \in shorter : Len(ys) = n - 1 },
                             r \in 0..MaxRenewals }

\* One amount counted: a renewal count per counted user, some of them cancelled.
InitStats ==
    /\ ReimportIdle
    /\ AnalyzeIdle
    /\ \E renewals \in RenewalLists(MaxSubs) :
           \E total_cancelled \in 0..Len(renewals) :
               s_in = << [ total_users |-> Len(renewals),
                           total_cancelled |-> total_cancelled,
                           renewals_per_user |-> renewals ] >>
    /\ s_out = <<>>
    /\ ExtractIdle

\* The figures of the amount.
StatsTier ==
    /\ Len(s_out) = 0
    /\ s_out' = << TierStats(s_in[1].total_users, s_in[1].total_cancelled,
                             s_in[1].renewals_per_user) >>
    /\ UNCHANGED <<s_in, reimport_vars, analyze_vars, extract_vars>>

\* The overall figures when it is the only amount counted.
StatsOverall ==
    /\ Len(s_out) = 1
    /\ s_out' = Append(s_out,
           OverallStats(s_in[1].total_users, s_in[1].total_cancelled,
                        s_in[1].renewals_per_user))
    /\ UNCHANGED <<s_in, reimport_vars, analyze_vars, extract_vars>>

NextStats ==
    \/ StatsTier
    \/ StatsOverall

SpecStats == InitStats /\ [][NextStats]_vars

\* ------------------------------------------------------------------ analyze_subscriptions: properties

bob == <<"@bob">>

\* the users with an event of one of the kinds at the amount, among the messages read
UsersWith(kinds, amount) ==
    { f.user_id : f \in { g \in seen : g.event_type \in kinds /\ g.amount = amount } }

\* C6 as claimed: the users counted for an amount are those with a Created
\* or a Renewed event at that amount.
C6_SubscribersCreatedOrRenewed ==
    \A k \in 1..Len(report) :
        report[k].users = UsersWith({CREATED, RENEWED}, report[k].amount)

\* C6 as amended: the users counted for an amount are those with a Created
\* event at that amount; a user with only Renewed events there is not
\* counted, and the list of renewal counts has one entry per counted user.
C6_SubscribersCreated ==
    \A k \in 1..Len(report) :
        /\ report[k].users = UsersWith({CREATED}, report[k].amount)
        /\ report[k].stats.total_users = Cardinality(report[k].users)
        /\ Len(report[k].renewals_per_user) = Cardinality(report[k].users)

\* C6 witness: alice subscribed at 5 and is counted, user_42 only renewed at
\* 5 and is not.
C6_Witness ==
    /\ Len(report) >= 3
    /\ report[3].amount = 500
    /\ [user_id |-> alice, amount |-> 500, event_type |-> CREATED] \in seen
    /\ [user_id |-> user_42, amount |-> 500, event_type |-> RENEWED] \in seen
    /\ report[3].users = {alice}

RECURSIVE SumCancelled(_)
SumCancelled(rows) ==
    IF rows = <<>> THEN 0
    ELSE Cardinality(Head(rows).cancelled) + SumCancelled(Tail(rows))

\* C7 as claimed: every (user, amount) counted as cancelled has its own
\* Cancelled event, so there are no more of them than Cancelled messages.
C7_CancelledPerTier ==
    SumCancelled(report) <= counts.cancellations

\* C7 as amended: the users counted as cancelled for an amount are the users
\* counted for it that have a Cancelled message at all; one cancellation
\* counts in every amount the user subscribed to.
C7_CancelledInEveryTier ==
    \A k \in 1..Len(report) :
        /\ report[k].cancelled =
               report[k].users \cap UsersWith({CANCELLED}, NoAmount)
        /\ report[k].stats.total_cancelled = Cardinality(report[k].cancelled)

\* C7 witness: alice subscribed at 5 and at 9 and cancelled once: she is
\* counted as cancelled for both.
C7_Witness ==
    /\ a_pc = "done"
    /\ counts.cancellations = 1
    /\ report[3].amount = 500 /\ report[3].cancelled = {alice}
    /\ report[4].amount = 900 /\ report[4].cancelled = {alice}

\* ------------------------------------------------------------------ statistics: properties

\* rate is part / total * 100 to the nearest hundredth
NearestPct(rate, part, total) ==
    LET diff == rate * total - part * 10000
    IN 2 * diff <= total /\ 2 * diff >= 0 - total

\* C8 as claimed: in every report the retention rate is 100 minus the churn
\* rate, the churn rate being cancelled / subscribers * 100, or 0 without
\* subscribers.
C8_RetentionIsComplement ==
    \A k \in 1..Len(s_out) :
        /\ s_out[k].retention_rate = 10000 - s_out[k].churn_rate
        /\ IF s_out[k].total_users = 0 THEN s_out[k].churn_rate = 0
           ELSE NearestPct(s_out[k].churn_rate, s_out[k].total_cancelled,
                           s_out[k].total_users)

\* C8 as amended: with subscribers, the churn rate is cancelled / subscribers
\* * 100 and the retention rate is 100 minus it; without subscribers both
\* rates are 0; the active count is subscribers minus cancelled.
C8_RetentionComplementOrZero ==
    \A k \in 1..Len(s_out) :
        /\ s_out[k].active_users = s_out[k].total_users - s_out[k].total_cancelled
        /\ IF s_out[k].total_users = 0
           THEN s_out[k].churn_rate = 0 /\ s_out[k].retention_rate = 0
           ELSE /\ NearestPct(s_out[k].churn_rate, s_out[k].total_cancelled,
                              s_out[k].total_users)
                /\ s_out[k].retention_rate = 10000 - s_out[k].churn_rate

\* C8 witness: 4 subscribers, 1 cancelled: 25.00, 75.00 and 3 active, for
\* the amount and overall.
C8_Witness ==
    /\ Len(s_out) = 2
    /\ \A k \in 1..2 :
           /\ s_out[k].total_users = 4 /\ s_out[k].total_cancelled = 1
           /\ s_out[k].churn_rate = 2500 /\ s_out[k].retention_rate = 7500
           /\ s_out[k].active_users = 3

Below(xs, m) == Len(SelectSeq(xs, LAMBDA x : x < m))

AtMost(xs, m) == Len(SelectSeq(xs, LAMBDA x : x <= m))

\* m is the element at place `place` (from 1) of xs in ascending order
IsAtPlace(xs, m, place) ==
    /\ \E k \in 1..Len(xs) : xs[k] = m
    /\ Below(xs, m) < place
    /\ AtMost(xs, m) >= place

\* C9 as claimed: the median is the middle element in ascending order, the
\* lower of the two middle elements on even length.
C9_MedianLowerMiddle ==
    (Len(s_out) >= 1 /\ s_out[1].distribution # <<>>) =>
        LET xs == s_in[1].renewals_per_user
        IN IsAtPlace(xs, s_out[1].distribution[1].median, (Len(xs) - 1) \div 2 + 1)

\* C9 as amended: the median is the element at index len // 2 (from 0) in
\* ascending order: the middle element on odd length, the upper of the two
\* middle elements on even length.
C9_MedianUpperMiddle ==
    (Len(s_out) >= 1 /\ s_out[1].distribution # <<>>) =>
        LET xs == s_in[1].renewals_per_user
        IN IsAtPlace(xs, s_out[1].distribution[1].median, Len(xs) \div 2 + 1)

\* C9 witness: the counts [2, 0, 1, 3] have the median 2, the upper of the
\* middle elements 1 and 2.
C9_Witness ==
    /\ Len(s_out) >= 1
    /\ s_in[1].renewals_per_user = <<2, 0, 1, 3>>
    /\ s_out[1].distribution[1].median = 2

\* ------------------------------------------------------------------ extraction of one message

\* Texts with one phrase, and texts with several phrases at once.
ExtractTexts ==
    Texts \cup
    { << <<"oformil", "podpisku", "otmenil">> >>,
      << <<"prodlil", "podpisku", "otmenil">> >>,
      << <<"otmenil", "podpisku", "prodlil", "podpisku">> >>,
      << <<"prodlil", "podpisku", "oformil", "podpisku">> >> }

\* Bold spans: none, one, or two of which the first or the second parses.
ExtractBolds ==
    BoldEntities \cup
    { <<Bold(<<"EUR", "9", ",", "9", "9">>)>>,
      <<Bold(<<"EUR", "5">>), Bold(<<"EUR", "a", "b", "c">>)>>,
      <<Bold(<<"EUR", "a", "b", "c">>), Bold(<<"EUR", "7", ",", "5", "0">>)>>,
      <<Bold(<<"5">>), Bold(<<"EUR", "9", ",", "9", "9">>)>>,
      <<Bold(<<"EUR", "a", "b", "c">>), Bold(<<"EUR", "a", "b", "c">>)>> }

ExtractMessages ==
    { [text |-> tx, text_entities |-> id \o b, date |-> d] :
        tx \in ExtractTexts, id \in IdentityEntities, b \in ExtractBolds,
        d \in Dates \cup {NoDate} }

\* One message of the export, read by neither script yet.
InitExtract ==
    /\ ReimportIdle
    /\ AnalyzeIdle
    /\ StatsIdle
    /\ \E message \in ExtractMessages : m_in = <<message>>
    /\ m_out = <<>>

\* The iteration of the first pass of the reimport on the message.
ExtractReimport ==
    /\ Len(m_out) = 0
    /\ m_out' = << [amount |-> extract_amount(m_in[1]), event |-> RawEvent(m_in[1])] >>
    /\ UNCHANGED <<m_in, reimport_vars, analyze_vars, stats_vars>>

\* The iteration of the message loop of the analyzer on the message.
ExtractAnalyze ==
    /\ Len(m_out) = 1
    /\ m_out' = Append(m_out,
           [amount |-> extract_amount(m_in[1]), event |-> AnalyzerEvent(m_in[1])])
    /\ UNCHANGED <<m_in, reimport_vars, analyze_vars, stats_vars>>

NextExtract ==
    \/ ExtractReimport
    \/ ExtractAnalyze

SpecExtract == InitExtract /\ [][NextExtract]_vars

\* ------------------------------------------------------------------ extraction: properties

HasCreated(message) == Contains(extract_text(message), <<"oformil", "podpisku">>)

HasRenewed(message) == Contains(extract_text(message), <<"prodlil", "podpisku">>)

HasCancelPhrase(message) ==
    /\ Contains(extract_text(message), <<"otmenil">>)
    /\ Contains(extract_text(message), <<"podpisku">>)

\* the first of the three tests the text of the message passes, "" when none
Kind(message) ==
    IF HasCreated(message) THEN CREATED
    ELSE IF HasRenewed(message) THEN RENEWED
    ELSE IF HasCancelPhrase(message) THEN CANCELLED
    ELSE ""

\* What a script may draw from a message it does not skip for its identity
\* or date (kept: the message has the fields the script requires).
Classified(message, out, kept) ==
    LET kind == Kind(message) IN
    /\ kind \in {CREATED, RENEWED} /\ out.amount = NoAmount => out.event = NoEvent
    /\ kind = "" => out.event = NoEvent
    /\ out.event # NoEvent => out.event.event_type = kind
    /\ out.event.event_type = CANCELLED => out.event.amount = NoAmount
    /\ out.event.event_type \in {CREATED, RENEWED} => out.event.amount = out.amount
    /\ kept /\ kind \in {CREATED, RENEWED} /\ out.amount > 0 => out.event # NoEvent
    /\ kept /\ kind = CANCELLED => out.event # NoEvent

\* C11: a message yields at most one event, of the first kind in the order
\* created, renewed, cancelled whose phrase the text contains; a message with
\* the created phrase (failing that, the renewed phrase) and no amount yields
\* no event even when it contains a phrase of lower priority; a Cancelled
\* event has no amount whatever bold spans the message has.  Both scripts.
C11_FirstMatchPriority ==
    /\ Len(m_out) >= 1 =>
           Classified(m_in[1], m_out[1],
               ~NotUser(extract_user_id(m_in[1])) /\ m_in[1].date # NoDate)
    /\ Len(m_out) >= 2 =>
           Classified(m_in[1], m_out[2], ~NotUser(extract_user_id(m_in[1])))

\* A dated message of a known user with the created phrase, the cancellation
\* word and no bold span: neither script draws an event.
C11_Witness ==
    /\ Len(m_out) = 2
    /\ m_in[1].text = << <<"oformil", "podpisku", "otmenil">> >>
    /\ m_in[1].text_entities = <<MentionName(42)>>
    /\ m_in[1].date = 1
    /\ m_out[1].event = NoEvent
    /\ m_out[2].event = NoEvent

\* the bold spans of a message whose text begins with the euro sign, in order
EuroSpans(message) ==
    SelectSeq(message.text_entities,
        LAMBDA entity : /\ entity.type = "bold"
                        /\ entity.text # <<>>
                        /\ Head(entity.text) = "EUR")

\* the value of a span: the sign stripped, the comma replaced, then float()
SpanValue(entity) == float(Replace(Replace(entity.text, "EUR", <<>>), ",", <<".">>))

\* A message with a creation or renewal phrase and no amount is dropped by
\* both scripts, which go on to the next message.
DroppedWithoutAmount ==
    \A k \in 1..Len(m_out) :
        /\ m_out[k].amount # ValueError
        /\ Kind(m_in[1]) \in {CREATED, RENEWED} /\ m_out[k].amount = NoAmount
               => m_out[k].event = NoEvent

\* C12 as claimed: the first bold span with the euro sign decides alone: its
\* value is the amount when it parses, the amount is undefined when there is
\* no such span or when it does not parse, whatever later spans hold.
C12_FirstEuroSpanDecides ==
    /\ \A k \in 1..Len(m_out) :
           LET spans == EuroSpans(m_in[1]) IN
           m_out[k].amount =
               IF spans = <<>> THEN NoAmount
               ELSE IF SpanValue(spans[1]) = ValueError THEN NoAmount
               ELSE SpanValue(spans[1])
    /\ DroppedWithoutAmount

\* C12, amended: the first bold span with the euro sign that parses decides:
\* spans that do not parse are passed over and later spans are tried; the
\* amount is undefined only when no bold span with the euro sign parses, and
\* then a creation or renewal message is dropped without an error.  A span
\* "9,99" with the sign gives 9.99; a lone span "abc" with the sign gives no
\* amount.
C12_FirstParsingEuroSpanDecides ==
    /\ \A k \in 1..Len(m_out) :
           LET spans   == EuroSpans(m_in[1])
               parsing == { j \in 1..Len(spans) : SpanValue(spans[j]) # ValueError }
           IN /\ parsing = {} => m_out[k].amount = NoAmount
              /\ parsing # {} =>
                     \E j \in parsing :
                         /\ \A h \in parsing : j <= h
                         /\ m_out[k].amount = SpanValue(spans[j])
              /\ spans = <<Bold(<<"EUR", "9", ",", "9", "9">>)>> => m_out[k].amount = 999
              /\ spans = <<Bold(<<"EUR", "a", "b", "c">>)>> => m_out[k].amount = NoAmount
    /\ DroppedWithoutAmount

\* A creation message of a known user whose first bold span with the euro
\* sign does not parse and whose second is 5 euros: a Created event of 5 euros.
C12_Witness ==
    /\ Len(m_out) = 2
    /\ m_in[1].text = << <<"oformil", "podpisku">> >>
    /\ m_in[1].text_entities =
           <<MentionName(42), Bold(<<"EUR", "a", "b", "c">>), Bold(<<"EUR", "5">>)>>
    /\ m_in[1].date = 1
    /\ m_out[1].amount = 500
    /\ m_out[1].event.event_type = CREATED
    /\ m_out[2].event.amount = 500

\* ------------------------------------------------------------------ second pass on longer histories

MaxEvents == 5

\* The events of the histories: subscriptions to two amounts and cancellations.
ReplayEvents ==
    { [date |-> d, amount |-> a, event_type |-> CREATED] : d \in Dates, a \in {500, 750} }
    \cup { [date |-> d, amount |-> NoAmount, event_type |-> CANCELLED] : d \in Dates }

\* The histories of exactly n events in the order of their dates, as the
\* export lists the messages.
RECURSIVE Histories(_)
Histories(n) ==
    IF n = 0 THEN { <<>> }
    ELSE { Append(p[1], p[2]) :
             p \in { q \in Histories(n - 1) \X ReplayEvents :
                       q[1] = <<>> \/ q[1][Len(q[1])].date <= q[2].date } }

\* The first pass has collected the history of one user, or of two, of
\* MaxEvents events at most.
InitReplay ==
    /\ AnalyzeIdle
    /\ StatsIdle
    /\ ExtractIdle
    /\ pc = "second"
    /\ \E n \in 1..MaxEvents :
           \E first \in Histories(n) :
               \E m \in 0..(MaxEvents - n) :
                   \E second \in Histories(m) :
                       /\ i = n + m
                       /\ user_subscriptions =
                              IF m = 0 THEN << [user_id |-> <<"@alice">>, events |-> first] >>
                              ELSE << [user_id |-> <<"@alice">>, events |-> first],
                                      [user_id |-> <<"user_", 42>>, events |-> second] >>
    /\ u = 0
    /\ e = 0
    /\ active_amounts = <<>>
    /\ inserted = <<>>
    /\ imported = 0
    /\ cancellations_matched = 0
    /\ cancellations_unmatched = 0

NextReplay ==
    \/ NextUser
    \/ ProcessCreated
    \/ ProcessCancelled
    \/ Commit

SpecReplay == InitReplay /\ [][NextReplay]_vars

\* ------------------------------------------------------------------ reimport: the emitted stream

\* the users with a row of the kind and the amount in the emitted stream
UsersInStream(event_type, amount) ==
    { inserted[k].user_id : k \in { j \in 1..Len(inserted) :
                                      /\ inserted[j].event_type = event_type
                                      /\ inserted[j].amount = amount } }

StreamAmounts == { inserted[k].amount : k \in 1..Len(inserted) }

\* C13: in the emitted stream, before every Cancelled row of amount a there
\* is a Created row of a of the same user with no Cancelled row of a of that
\* user between the two; so, per amount, the users with a Cancelled row are
\* among the users with a Created row, and the number of the latter minus the
\* number of the former is not negative.
C13_CancelledAfterOwnCreated ==
    /\ \A k \in 1..Len(inserted) :
           inserted[k].event_type = CANCELLED =>
               \E j \in 1..(k - 1) :
                   /\ inserted[j].event_type = CREATED
                   /\ inserted[j].user_id = inserted[k].user_id
                   /\ inserted[j].amount = inserted[k].amount
                   /\ \A m \in (j + 1)..(k - 1) :
                          ~ ( /\ inserted[m].event_type = CANCELLED
                              /\ inserted[m].user_id = inserted[k].user_id
                              /\ inserted[m].amount = inserted[k].amount )
    /\ \A amount \in StreamAmounts :
           /\ UsersInStream(CANCELLED, amount) \subseteq UsersInStream(CREATED, amount)
           /\ Cardinality(UsersInStream(CREATED, amount))
                  - Cardinality(UsersInStream(CANCELLED, amount)) >= 0

\* One user subscribed to 5 euros, cancelled, subscribed again and cancelled
\* again, a second user subscribed to 5 euros: each Cancelled row follows
\* its own Created row, and one of the two subscribers is cancelled.
C13_Witness ==
    /\ pc = "done"
    /\ inserted = << Row(alice, 500, CREATED, 1), Row(alice, 500, CANCELLED, 1),
                     Row(alice, 500, CREATED, 2), Row(alice, 500, CANCELLED, 2),
                     Row(user_42, 500, CREATED, 1) >>
    /\ UsersInStream(CREATED, 500) = {alice, user_42}
    /\ UsersInStream(CANCELLED, 500) = {alice}

\* ------------------------------------------------------------------ reimport: cancellations among equal dates

\* positions, among the rows of a user, of the rows of a kind and an amount
RowsAt(rows, event_type, amount) ==
    { k \in 1..Len(rows) : rows[k].event_type = event_type /\ rows[k].amount = amount }

Largest(S) == IF S = {} THEN 0 ELSE CHOOSE k \in S : \A j \in S : j <= k

\* the Created rows of the amount since its last Cancelled row: its open period
OpenPeriod(rows, amount) ==
    { k \in RowsAt(rows, CREATED, amount) :
        k > Largest(RowsAt(rows, CANCELLED, amount)) }

\* the date of the last Created row of an open amount
OpenedAt(rows, amount) == rows[Largest(OpenPeriod(rows, amount))].event_date

OpenAmounts(rows) ==
    { a \in { rows[k].amount : k \in 1..Len(rows) } : OpenPeriod(rows, a) # {} }

\* the open amounts of the latest date
LatestOpen(rows) ==
    { a \in OpenAmounts(rows) :
        \A b \in OpenAmounts(rows) : OpenedAt(rows, b) <= OpenedAt(rows, a) }

\* among them, the one whose open period began first
EarliestOpened(rows) ==
    CHOOSE a \in LatestOpen(rows) :
        \A b \in LatestOpen(rows) :
            \E k \in OpenPeriod(rows, a) : \A j \in OpenPeriod(rows, b) : k <= j

\* C15: a Cancelled event met while amounts are open is given the amount,
\* among the open amounts of the latest date, whose current open period
\* began first in the user's rows: a repeated Created of an open amount does
\* not move it, a Created after its cancellation puts it last, and the
\* value of the amount plays no part.
C15_TieGoesToEarliestOpened ==
    [][ ( /\ AtEvent(CANCELLED)
          /\ OpenAmounts(RowsOf(CurrentUser)) # {} )
        => inserted' = Append(inserted,
               Row(CurrentUser, EarliestOpened(RowsOf(CurrentUser)), CANCELLED,
                   CurrentEvent.date)) ]_vars

\* [Created(5), Created(7,50), Cancelled, Created(5), Cancelled] on one date:
\* the first cancellation closes 5, opened first; 5 is opened again, after
\* 7,50, and the second cancellation closes 7,50.
C15_Witness ==
    /\ Replaying
    /\ inserted = << Row(alice, 500, CREATED, 1), Row(alice, 750, CREATED, 1),
                     Row(alice, 500, CANCELLED, 1), Row(alice, 500, CREATED, 1),
                     Row(alice, 750, CANCELLED, 1) >>
    /\ active_amounts = << [amount |-> 500, date |-> 1] >>

\* ------------------------------------------------------------------ reimport: the counters

\* number of collected raw events of a user equal to ev
CollectedLike(user_id, ev) ==
    LET k == KeyIndex(user_subscriptions, "user_id", user_id)
    IN IF k = 0 THEN 0
       ELSE Len(SelectSeq(user_subscriptions[k].events, LAMBDA x : x = ev))

\* number of collected raw events of a kind
CollectedOf(event_type) ==
    LET N[k \in 0..Len(user_subscriptions)] ==
            IF k = 0 THEN 0
            ELSE N[k - 1] + Len(SelectSeq(user_subscriptions[k].events,
                                    LAMBDA x : x.event_type = event_type))
    IN N[Len(user_subscriptions)]

RowsOfKind(event_type) == SelectSeq(inserted, LAMBDA row : row.event_type = event_type)

\* C14: after the second pass every collected raw event is accounted for
\* once: imported is the number of Created and Renewed raw events plus
\* cancellations_matched; matched plus unmatched is the number of Cancelled
\* raw events; every Created or Renewed raw event has its one row, every
\* matched cancellation has its one row on the date of a Cancelled raw
\* event of the user, and there is no other row.
C14_EveryEventAccounted ==
    pc = "done" =>
        /\ imported = CollectedOf(CREATED) + CollectedOf(RENEWED) + cancellations_matched
        /\ cancellations_matched + cancellations_unmatched = CollectedOf(CANCELLED)
        /\ Len(inserted) = imported
        /\ Len(RowsOfKind(CREATED)) = CollectedOf(CREATED)
        /\ Len(RowsOfKind(RENEWED)) = CollectedOf(RENEWED)
        /\ Len(RowsOfKind(CANCELLED)) = cancellations_matched
        /\ \A k \in 1..Len(user_subscriptions) :
               LET user_id == user_subscriptions[k].user_id
                   events  == user_subscriptions[k].events
               IN \A j \in 1..Len(events) :
                      LET ev == events[j] IN
                      IF ev.event_type = CANCELLED
                      THEN Len(SelectSeq(inserted, LAMBDA row :
                                   /\ row.user_id = user_id
                                   /\ row.event_type = CANCELLED
                                   /\ row.event_date = ev.date))
                               <= CollectedLike(user_id, ev)
                      ELSE Len(SelectSeq(inserted, LAMBDA row :
                                   row = Row(user_id, ev.amount, ev.event_type, ev.date)))
                               = CollectedLike(user_id, ev)

\* A renewal and a cancellation of one user, a subscription of another: two
\* rows imported, no cancellation matched, one unmatched.
C14_Witness ==
    /\ pc = "done"
    /\ inserted = << Row(alice, 500, RENEWED, 1), Row(user_42, 500, CREATED, 1) >>
    /\ imported = 2
    /\ cancellations_matched = 0
    /\ cancellations_unmatched = 1
    /\ CollectedOf(CANCELLED) = 1

====
